---------------------------- MODULE Spec2Model ----------------------------
(***************************************************************************)
(* A model of carver (src/main.go): a single-shot command that renders     *)
(* lines of text into an image, optionally over a decoded canvas image,    *)
(* and writes a PNG.                                                       *)
(*                                                                         *)
(* Pixels are not modelled: an image is its bounds rectangle.  Lengths in  *)
(* the rasterizer are 26.6 fixed-point integers (64 units per pixel).      *)
(***************************************************************************)
EXTENDS Integers, Sequences, FiniteSets, TLC

VARIABLES
    flag,       \* the command-line flags (main.go 29-38), a record
    pc,         \* position of the process in main, or "exit"
    font,       \* global font (main.go 26): parsed font, or NoFont
    fg,         \* global fg (main.go 24): NRGBA of the foreground
    bg,         \* global bg (main.go 25): NRGBA of the background
    lines,      \* the lines returned by textToRender
    linesB,     \* a second line set, for comparing two calls of bounds
    est,        \* bounds(ctx, lines)
    estB,       \* bounds(ctx, linesB)
    img,        \* bounds of the image returned by render
    cimg,       \* bounds of the canvas image returned by canvas
    dstRect,    \* the rectangle handed to draw.Draw (result of textRect)
    exitCode,   \* exit status of the process, Running while it runs
    stdout,     \* what was printed to standard output
    stderr,     \* what was printed to standard error: <<>> or one diagnostic
    written,    \* number of times the output file has been opened for writing
    executed,   \* the stages of main entered so far, in order
    failed      \* the stage that failed, or "none"

vars == <<flag, pc, font, fg, bg, lines, linesB, est, estB, img, cimg, dstRect,
          exitCode, stdout, stderr, written, executed, failed>>

---------------------------------------------------------------------------
(* Bounds of the model *)

MaxText == 2        \* characters of the -t flag / of standard input (Spec)
MaxLines == 2       \* lines handed to render and bounds (SpecRender, SpecBounds)
MaxLen == 2         \* characters per line (SpecRender, SpecBounds)
MaxOrigin == 1      \* largest coordinate of a canvas origin (SpecRect)
MaxSide == 3        \* largest width/height of a rectangle (SpecRect)

(* Program constants *)

Margin == 16        \* freetype.Pt(16, 16)
ExitOK == 0         \* main returns
ExitFatal == 1      \* log.Fatal
ExitUsage == 2      \* os.Exit(2) in usage
ExitPanic == 2      \* the Go runtime's status for an unrecovered panic
Running == 0 - 1    \* no exit status yet

FontSizes == {0, 4, 11, 14}    \* -p, in points
DPIs == {72, 96}            \* -d

---------------------------------------------------------------------------
(* image.Point, image.Rectangle *)

Pt(x, y) == [X |-> x, Y |-> y]

\* image.Rect: the rectangle is normalised so that Min <= Max
Rect(x0, y0, x1, y1) ==
    [Min |-> Pt(IF x0 > x1 THEN x1 ELSE x0, IF y0 > y1 THEN y1 ELSE y0),
     Max |-> Pt(IF x0 > x1 THEN x0 ELSE x1, IF y0 > y1 THEN y0 ELSE y1)]

ZR == [Min |-> Pt(0, 0), Max |-> Pt(0, 0)]

Dx(r) == r.Max.X - r.Min.X
Dy(r) == r.Max.Y - r.Min.Y

Empty(r) == r.Min.X >= r.Max.X \/ r.Min.Y >= r.Max.Y

Intersect(r, s) ==
    LET t == [Min |-> Pt(IF r.Min.X < s.Min.X THEN s.Min.X ELSE r.Min.X,
                         IF r.Min.Y < s.Min.Y THEN s.Min.Y ELSE r.Min.Y),
              Max |-> Pt(IF r.Max.X > s.Max.X THEN s.Max.X ELSE r.Max.X,
                         IF r.Max.Y > s.Max.Y THEN s.Max.Y ELSE r.Max.Y)]
    IN  IF Empty(t) THEN ZR ELSE t

\* a plausible slip: the crop rectangle is taken as it is
SubImageNoClip(p, r) == r

\* (*image.RGBA).SubImage: the view is clipped to the image's own bounds
SubImage(p, r) == Intersect(r, p)

---------------------------------------------------------------------------
(* fixed.Int26_6 and the freetype context *)

\* fixed.Int26_6.Ceil
Ceil(x) == (x + 63) \div 64

\* freetype.Pt(x, y): pixels to 26.6
FixedPt(x, y) == Pt(x * 64, y * 64)

\* (*freetype.Context).PointToFixed: points to 26.6 pixels, truncated
PointToFixed(ctx, x) == (x * ctx.dpi * 64) \div 72

\* the context's scale: the font size in 26.6 pixels, rounded to nearest
Scale(ctx) == (2 * ctx.fontSize * ctx.dpi * 64 + 72) \div 144

NoFont == [name |-> "none", upem |-> 1, adv |-> [c \in {"W", " "} |-> 0]]

\* gomono: every glyph advances 1229/2048 em
GoMono == [name |-> "gomono", upem |-> 2048, adv |-> [c \in {"W", " "} |-> 1229]]

\* a font file whose glyphs are wider than one em
WideFont == [name |-> "wide", upem |-> 2048,
             adv |-> [c \in {"W", " "} |-> IF c = "W" THEN 4096 ELSE 1024]]

Fonts == {GoMono, WideFont}

\* truetype: the advance width of one glyph at the context's scale
GlyphAdvance(ctx, c) ==
    (Scale(ctx) * ctx.font.adv[c] + (ctx.font.upem \div 2)) \div ctx.font.upem

RECURSIVE StringAdvance(_, _)
StringAdvance(ctx, s) ==
    IF s = <<>> THEN 0
    ELSE GlyphAdvance(ctx, Head(s)) + StringAdvance(ctx, Tail(s))

\* (*freetype.Context).DrawString: the pen position after drawing s at p
DrawString(ctx, s, p) == Pt(p.X + StringAdvance(ctx, s), p.Y)

---------------------------------------------------------------------------
(* allocColorImage (main.go 41-51) *)

HexLower == <<"0", "1", "2", "3", "4", "5", "6", "7", "8", "9",
              "a", "b", "c", "d", "e", "f">>
HexUpper == <<"0", "1", "2", "3", "4", "5", "6", "7", "8", "9",
              "A", "B", "C", "D", "E", "F">>

IsHexDigit(ch) == \E i \in 1..16 : HexLower[i] = ch \/ HexUpper[i] = ch

HexVal(ch) == (CHOOSE i \in 1..16 : HexLower[i] = ch \/ HexUpper[i] = ch) - 1

\* the longest prefix of s made of hex digits (the token %x scans)
RECURSIVE HexToken(_)
HexToken(s) ==
    IF s = <<>> \/ ~IsHexDigit(Head(s)) THEN <<>>
    ELSE <<Head(s)>> \o HexToken(Tail(s))

\* a uint32 is kept as two 16-bit halves, [hi, lo]; ovf records that the
\* digits read so far no longer fit in 32 bits
U32Zero == [hi |-> 0, lo |-> 0, ovf |-> FALSE]

\* strconv.ParseUint(tok, 16, 64), most significant digit first
RECURSIVE ParseUint16(_)
ParseUint16(tok) ==
    IF tok = <<>> THEN U32Zero
    ELSE LET u == ParseUint16(SubSeq(tok, 1, Len(tok) - 1))
             lo2 == u.lo * 16 + HexVal(tok[Len(tok)])
             hi2 == u.hi * 16 + (lo2 \div 65536)
         IN  [hi |-> hi2 % 65536, lo |-> lo2 % 65536,
              ovf |-> u.ovf \/ hi2 >= 65536]

\* fmt.Sscanf(col, "%x", &c) into a zeroed uint32: on a scan error (no digit,
\* or a value that overflows 32 bits) c keeps its zero value
SscanfHex32(col) ==
    LET tok == HexToken(col)
        v == ParseUint16(tok)
    IN  IF tok = <<>> \/ v.ovf THEN U32Zero ELSE v

\* c >> n on a uint32
Shr(c, n) ==
    IF n >= 16
    THEN [hi |-> 0, lo |-> c.hi \div (2^(n - 16)), ovf |-> FALSE]
    ELSE [hi |-> c.hi \div (2^n),
          lo |-> (c.lo \div (2^n)) + (c.hi % (2^n)) * (2^(16 - n)),
          ovf |-> FALSE]

\* uint8(c & 0xFF)
And0xFF(c) == c.lo % 256

\* a plausible slip: G and B take each other's shift
allocColorImageSwapped(col) ==
    LET c == SscanfHex32(col)
    IN  [R |-> And0xFF(Shr(c, 24)), G |-> And0xFF(Shr(c, 8)),
         B |-> And0xFF(Shr(c, 16)), A |-> And0xFF(Shr(c, 0))]

allocColorImage(col) ==
    LET c == SscanfHex32(col)
    IN  [R |-> And0xFF(Shr(c, 24)), G |-> And0xFF(Shr(c, 16)),
         B |-> And0xFF(Shr(c, 8)), A |-> And0xFF(Shr(c, 0))]

\* fmt.Sprintf("%02x%02x%02x%02x", R, G, B, A): the color as 8 small hex digits
Hex2(b) == <<HexLower[(b \div 16) + 1], HexLower[(b % 16) + 1]>>
FormatNRGBA(n) == Hex2(n.R) \o Hex2(n.G) \o Hex2(n.B) \o Hex2(n.A)

---------------------------------------------------------------------------
(* bounds (main.go 55-70) and render (main.go 73-102) *)

\* the context render configures: SetFont, SetFontSize, SetDPI
Context == [font |-> font, fontSize |-> flag.p, dpi |-> flag.d]

RECURSIVE MaxLineLen(_)
MaxLineLen(ls) ==
    IF ls = <<>> THEN 0
    ELSE LET m == MaxLineLen(Tail(ls))
         IN  IF Len(Head(ls)) > m THEN Len(Head(ls)) ELSE m

\* a plausible slip: the vertical extent forgets the margins
boundsNoMargin(ctx, ls) ==
    LET po == PointToFixed(ctx, flag.p)
        vs == PointToFixed(ctx, flag.p + 2)
    IN  Rect(0, 0, MaxLineLen(ls) * Ceil(po) + 4 * Ceil(po), Len(ls) * Ceil(vs))

bounds(ctx, ls) ==
    LET maxLen == MaxLineLen(ls)
        po == PointToFixed(ctx, flag.p)
        vs == PointToFixed(ctx, flag.p + 2)
        dx == maxLen * Ceil(po) + 4 * Ceil(po)
        dy == Len(ls) * Ceil(vs) + 4 * Ceil(po)
    IN  Rect(0, 0, dx, dy)

\* the loop of render (main.go 89-97): the tracked bounds after drawing ls,
\* starting with the pen at p and the tracked bounds at b
RECURSIVE DrawLines(_, _, _, _, _)
DrawLines(ctx, vs, ls, p, b) ==
    IF ls = <<>> THEN b
    ELSE LET q == Pt(p.X, p.Y + vs)
             p1 == DrawString(ctx, Head(ls), q)
             bx == IF p1.X > b.X THEN p1.X ELSE b.X
         IN  DrawLines(ctx, vs, Tail(ls), q, Pt(bx, q.Y))

\* the crop rectangle render computes (main.go 85-101)
CropRect(ctx, ls) ==
    LET vs == PointToFixed(ctx, flag.p + 2)
        offset == FixedPt(Margin, Margin)
        b == DrawLines(ctx, vs, ls, offset, FixedPt(0, 0))
    IN  Rect(0, 0, Ceil(b.X + offset.X), Ceil(b.Y + offset.Y))

\* render when no DrawString fails: the bounds of the returned image
render(ls) ==
    LET ctx == Context
        rgba == bounds(ctx, ls)
    IN  SubImage(rgba, CropRect(ctx, ls))

---------------------------------------------------------------------------
(* textRect (main.go 157-187) *)

Anchors == {"tl", "tc", "tr", "cl", "c", "cr", "bl", "bc", "br"}

\* Go's integer division truncates toward zero
Quo(a, b) == IF a >= 0 THEN a \div b ELSE -((-a) \div b)

\* the offset point of the switch (main.go 162-183); pos is a valid anchor
AnchorPt(pos, ox, oy) ==
    CASE pos = "tl" -> Pt(0, 0)
      [] pos = "tc" -> Pt(Quo(ox, 2), 0)
      [] pos = "tr" -> Pt(ox, 0)
      [] pos = "cl" -> Pt(0, Quo(oy, 2))
      [] pos = "c"  -> Pt(Quo(ox, 2), Quo(oy, 2))
      [] pos = "cr" -> Pt(ox, Quo(oy, 2))
      [] pos = "bl" -> Pt(0, oy)
      [] pos = "bc" -> Pt(Quo(ox, 2), oy)
      [] pos = "br" -> Pt(ox, oy)

SlackX(dst, src) == dst.Max.X - Dx(src)
SlackY(dst, src) == dst.Max.Y - Dy(src)

\* a plausible slip: an unknown anchor falls through to the top left
\* instead of calling usage
textRectDefaultTl(dst, src, pos) ==
    LET ox == SlackX(dst, src)
        oy == SlackY(dst, src)
        pt == IF pos \in Anchors THEN AnchorPt(pos, ox, oy) ELSE Pt(0, 0)
        ap == Pt(dst.Min.X + pt.X, dst.Min.Y + pt.Y)
    IN  [usage |-> FALSE,
         rect |-> Rect(ap.X, ap.Y, ap.X + Dx(src), ap.Y + Dy(src))]

\* textRect: usage is TRUE when pos is none of the nine anchors, and the
\* process then exits inside usage; otherwise rect is the returned rectangle
textRect(dst, src, pos) ==
    IF pos \notin Anchors THEN [usage |-> TRUE, rect |-> ZR]
    ELSE LET ox == SlackX(dst, src)
             oy == SlackY(dst, src)
             pt == AnchorPt(pos, ox, oy)
             ap == Pt(dst.Min.X + pt.X, dst.Min.Y + pt.Y)
         IN  [usage |-> FALSE,
              rect |-> Rect(ap.X, ap.Y, ap.X + Dx(src), ap.Y + Dy(src))]

---------------------------------------------------------------------------
(* The state after flag.Parse with no argument given, and before main runs *)

\* a Go string is a sequence of one-character strings
DefaultFlags ==
    [c |-> <<"0", "0", "0", "0", "0", "0", "f", "f">>,
     b |-> <<"f", "f", "f", "f", "e", "0", "f", "f">>,
     o |-> "", i |-> "", t |-> <<>>, d |-> 96, p |-> 11,
     f |-> "", n |-> FALSE, a |-> "tl"]

NoColor == [R |-> 0, G |-> 0, B |-> 0, A |-> 0]

GlobalsInit == font = NoFont /\ fg = NoColor /\ bg = NoColor

DataInit ==
    /\ lines = <<>> /\ linesB = <<>>
    /\ est = ZR /\ estB = ZR /\ img = ZR /\ cimg = ZR /\ dstRect = ZR

ProcessInit ==
    /\ exitCode = Running /\ stdout = <<>> /\ stderr = <<>>
    /\ written = 0 /\ executed = <<>> /\ failed = "none"

processVars == <<exitCode, stdout, stderr, written, executed, failed>>
dataVars == <<lines, linesB, est, estB, img, cimg, dstRect>>

\* all sequences over S of length at most n
RECURSIVE SeqsUpTo(_, _)
SeqsUpTo(S, n) ==
    IF n = 0 THEN {<<>>}
    ELSE LET shorter == SeqsUpTo(S, n - 1)
         IN  shorter \cup {Append(q, x) : q \in shorter, x \in S}

---------------------------------------------------------------------------
(* SpecColor: allocColorImage applied to well-formed colors, then to the   *)
(* color formatted back to 8 hex digits                                    *)

ColorDigits == {"0", "9", "c", "F"}

WellFormedColors == {q \in SeqsUpTo(ColorDigits, 8) : Len(q) = 8}

InitColor ==
    /\ flag \in {[DefaultFlags EXCEPT !.c = q] : q \in WellFormedColors}
    /\ pc = "allocColor"
    /\ GlobalsInit /\ DataInit /\ ProcessInit

AllocColor ==
    /\ pc = "allocColor"
    /\ fg' = allocColorImage(flag.c)
    /\ pc' = "formatColor"
    /\ UNCHANGED <<flag, font, bg, dataVars, processVars>>

ReparseColor ==
    /\ pc = "formatColor"
    /\ flag' = [flag EXCEPT !.b = FormatNRGBA(fg)]
    /\ bg' = allocColorImage(flag'.b)
    /\ pc' = "colorDone"
    /\ UNCHANGED <<font, fg, dataVars, processVars>>

NextColor == AllocColor \/ ReparseColor

SpecColor == InitColor /\ [][NextColor]_vars

---------------------------------------------------------------------------
(* SpecRect: textRect applied to canvas and text rectangles *)

CanvasRects ==
    {Rect(x, y, x + w, y + h) : x \in 0..MaxOrigin, y \in 0..MaxOrigin,
                                w \in 1..MaxSide, h \in 1..MaxSide}

TextRects == {Rect(0, 0, w, h) : w \in 1..MaxSide, h \in 1..MaxSide}

InitRect ==
    /\ flag \in {[DefaultFlags EXCEPT !.a = a] : a \in Anchors}
    /\ pc = "textRect"
    /\ GlobalsInit /\ ProcessInit
    /\ lines = <<>> /\ linesB = <<>> /\ est = ZR /\ estB = ZR /\ dstRect = ZR
    /\ cimg \in CanvasRects
    /\ img \in TextRects

TextRectCall ==
    /\ pc = "textRect"
    /\ dstRect' = textRect(cimg, img, flag.a).rect
    /\ pc' = "placed"
    /\ UNCHANGED <<flag, font, fg, bg, lines, linesB, est, estB, img, cimg,
                   processVars>>

NextRect == TextRectCall

SpecRect == InitRect /\ [][NextRect]_vars

---------------------------------------------------------------------------
(* SpecBounds: bounds applied to two non-empty line sets;                  *)
(* SpecRender: render and bounds applied to the same lines                 *)

Lines(chars) == SeqsUpTo(chars, MaxLen)
LineSets(chars) == SeqsUpTo(Lines(chars), MaxLines)

SizeFlags == {[DefaultFlags EXCEPT !.p = p, !.d = d] : p \in FontSizes, d \in DPIs}

InitBounds ==
    /\ flag \in SizeFlags
    /\ pc = "bounds"
    /\ font = GoMono /\ fg = NoColor /\ bg = NoColor
    /\ ProcessInit
    /\ lines \in LineSets({"W"}) \ {<<>>}
    /\ linesB \in LineSets({"W"}) \ {<<>>}
    /\ est = ZR /\ estB = ZR /\ img = ZR /\ cimg = ZR /\ dstRect = ZR

BoundsCall ==
    /\ pc = "bounds"
    /\ est' = bounds(Context, lines)
    /\ estB' = bounds(Context, linesB)
    /\ pc' = "estimated"
    /\ UNCHANGED <<flag, font, fg, bg, lines, linesB, img, cimg, dstRect,
                   processVars>>

NextBounds == BoundsCall

SpecBounds == InitBounds /\ [][NextBounds]_vars

InitRender ==
    /\ flag \in {f \in SizeFlags : f.p > 0}
    /\ pc = "render"
    /\ font \in Fonts /\ fg = NoColor /\ bg = NoColor
    /\ ProcessInit
    /\ lines \in LineSets({"W", " "})
    /\ linesB = <<>>
    /\ est = ZR /\ estB = ZR /\ img = ZR /\ cimg = ZR /\ dstRect = ZR

RenderCall ==
    /\ pc = "render"
    /\ img' = render(lines)
    /\ est' = bounds(Context, lines)
    /\ pc' = "rendered"
    /\ UNCHANGED <<flag, font, fg, bg, lines, linesB, estB, cimg, dstRect,
                   processVars>>

NextRender == RenderCall

SpecRender == InitRender /\ [][NextRender]_vars

---------------------------------------------------------------------------
(* textToRender (main.go 115-129) *)

\* position of the first newline of s, or 0
FirstNL(s) ==
    IF \E i \in 1..Len(s) : s[i] = "\n"
    THEN CHOOSE i \in 1..Len(s) : s[i] = "\n" /\ \A j \in 1..(i - 1) : s[j] # "\n"
    ELSE 0

\* bufio.Scanner with ScanLines: the lines of s without their newline; a last
\* line without newline counts, an empty rest does not
RECURSIVE ScanLines(_)
ScanLines(s) ==
    IF s = <<>> THEN <<>>
    ELSE LET i == FirstNL(s)
         IN  IF i = 0 THEN <<s>>
             ELSE <<SubSeq(s, 1, i - 1)>> \o ScanLines(SubSeq(s, i + 1, Len(s)))

\* strings.ReplaceAll(line, "\t", "    ")
RECURSIVE ReplaceTabs(_)
ReplaceTabs(line) ==
    IF line = <<>> THEN <<>>
    ELSE (IF Head(line) = "\t" THEN <<" ", " ", " ", " ">> ELSE <<Head(line)>>)
         \o ReplaceTabs(Tail(line))

\* the lines textToRender returns for the input the scanner reads
textToRender(input) ==
    LET raw == ScanLines(input)
    IN  [i \in 1..Len(raw) |-> ReplaceTabs(raw[i])]

---------------------------------------------------------------------------
(* canvas (main.go 134-153) *)

\* what opening and decoding the file of -i can give: the file cannot be
\* opened; it is no PNG or JPEG; it decodes to an image type without a Set
\* method (a colour JPEG decodes to *image.YCbCr); it decodes to an image
\* that can be drawn on, of the given bounds
DecodedRects == {Rect(0, 0, w, h) : w \in {8, 200}, h \in {8, 200}}

FileOutcomes ==
    {[kind |-> k, rect |-> ZR] : k \in {"openErr", "decodeErr", "ycbcr"}}
    \cup {[kind |-> "drawable", rect |-> r] : r \in DecodedRects}

\* a plausible slip: the blank canvas adds margins of its own
canvasWithMargin(fname, b, file) ==
    IF fname = ""
    THEN [result |-> "ok",
          rect |-> Rect(b.Min.X, b.Min.Y, b.Max.X + Margin, b.Max.Y + Margin)]
    ELSE CASE file.kind = "openErr"   -> [result |-> "err", rect |-> ZR]
           [] file.kind = "decodeErr" -> [result |-> "fatal", rect |-> ZR]
           [] file.kind = "ycbcr"     -> [result |-> "panic", rect |-> ZR]
           [] file.kind = "drawable"  -> [result |-> "ok", rect |-> file.rect]

\* canvas: result is "ok" (rect is the canvas), "err" (an error is returned),
\* "fatal" (log.Fatal inside canvas) or "panic" (the type assertion fails)
canvas(fname, b, file) ==
    IF fname = "" THEN [result |-> "ok", rect |-> b]
    ELSE CASE file.kind = "openErr"   -> [result |-> "err", rect |-> ZR]
           [] file.kind = "decodeErr" -> [result |-> "fatal", rect |-> ZR]
           [] file.kind = "ycbcr"     -> [result |-> "panic", rect |-> ZR]
           [] file.kind = "drawable"  -> [result |-> "ok", rect |-> file.rect]

---------------------------------------------------------------------------
(* main (main.go 198-253), one action per stage *)

Texts == SeqsUpTo({"W", "\t", "\n"}, MaxText)

InitFlags ==
    {[DefaultFlags EXCEPT !.o = o, !.i = i, !.t = t, !.d = sz.d, !.p = sz.p,
                          !.f = f, !.n = n, !.a = a] :
        o \in {"", "out.png"}, i \in {"", "in.img"}, t \in Texts, sz \in SizeFlags,
        f \in {"", "font.ttf"}, n \in BOOLEAN, a \in Anchors \cup {"zz"}}

Init ==
    /\ flag \in InitFlags
    /\ pc = "checkFlags"
    /\ GlobalsInit /\ DataInit /\ ProcessInit

\* the stage is entered
Enter(stage) == executed' = Append(executed, stage)

\* the stage succeeded and main goes on
Continue(next) ==
    /\ pc' = next
    /\ UNCHANGED <<exitCode, stderr, failed>>

\* usage (main.go 189-196): the usage text on standard error, os.Exit(2)
usage(stage) ==
    /\ stderr' = Append(stderr, "usage")
    /\ exitCode' = ExitUsage
    /\ failed' = stage
    /\ pc' = "exit"

\* a plausible slip: log.Print in place of log.Fatal, the run goes on
FatalGoesOn(stage, next) ==
    /\ stderr' = Append(stderr, "error")
    /\ failed' = stage
    /\ pc' = next
    /\ UNCHANGED exitCode

\* log.Fatal(err): the error on standard error, os.Exit(1); next is the stage
\* main would have gone on to
Fatal(stage, next) ==
    /\ stderr' = Append(stderr, "error")
    /\ exitCode' = ExitFatal
    /\ failed' = stage
    /\ pc' = "exit"

\* an unrecovered panic: the panic message on standard error, exit status 2
Panic(stage) ==
    /\ stderr' = Append(stderr, "panic")
    /\ exitCode' = ExitPanic
    /\ failed' = stage
    /\ pc' = "exit"

\* main.go 204-206
main_checkFlags ==
    /\ pc = "checkFlags"
    /\ Enter("checkFlags")
    /\ IF flag.o = "" /\ ~flag.n THEN usage("checkFlags") ELSE Continue("font")
    /\ UNCHANGED <<flag, font, fg, bg, dataVars, stdout, written>>

\* main.go 208-226: the font is read and parsed, the colors are allocated
main_font ==
    /\ pc = "font"
    /\ Enter("font")
    /\ \E file \in IF flag.f = "" THEN {"gomono"} ELSE {"readErr", "parseErr", "ttf"},
          parsed \in IF flag.f = "" THEN {GoMono} ELSE Fonts :
         IF file \in {"readErr", "parseErr"}
         THEN /\ Fatal("font", "readText")
              /\ UNCHANGED <<font, fg, bg>>
         ELSE /\ font' = parsed
              /\ fg' = allocColorImage(flag.c)
              /\ bg' = allocColorImage(flag.b)
              /\ Continue("readText")
    /\ UNCHANGED <<flag, dataVars, stdout, written>>

\* main.go 228-231: -t, or standard input when -t is empty
main_readText ==
    /\ pc = "readText"
    /\ Enter("readText")
    /\ \E input \in IF flag.t = <<>> THEN Texts ELSE {flag.t},
          readErr \in IF flag.t = <<>> THEN BOOLEAN ELSE {FALSE} :
         IF readErr
         THEN /\ Fatal("readText", "render")
              /\ UNCHANGED lines
         ELSE /\ lines' = textToRender(input)
              /\ Continue("render")
    /\ UNCHANGED <<flag, font, fg, bg, linesB, est, estB, img, cimg, dstRect,
                   stdout, written>>

\* a plausible slip: the report flag is not looked at
AfterRenderIgnoresReport == "canvas"

\* main.go 238-240: if *report ... else ...
AfterRender == IF flag.n THEN "report" ELSE "canvas"

\* main.go 233-236: DrawString can fail only when it has a glyph to draw
main_render ==
    /\ pc = "render"
    /\ Enter("render")
    /\ \E drawErr \in IF \E i \in 1..Len(lines) : lines[i] # <<>>
                       THEN BOOLEAN ELSE {FALSE} :
         IF drawErr
         THEN /\ Fatal("render", AfterRender)
              /\ UNCHANGED img
         ELSE /\ img' = render(lines)
              /\ Continue(AfterRender)
    /\ UNCHANGED <<flag, font, fg, bg, lines, linesB, est, estB, cimg, dstRect,
                   stdout, written>>

\* fmt.Printf("%dx%d", w, h): the two numbers in decimal around an x
Printf_dxd(w, h) == <<w, "x", h>>

\* main.go 238-239: the bounds are printed, main returns
main_report ==
    /\ pc = "report"
    /\ Enter("report")
    /\ stdout' = Append(stdout, Printf_dxd(Dx(img), Dy(img)))
    /\ pc' = "exit"
    /\ exitCode' = ExitOK
    /\ UNCHANGED <<flag, font, fg, bg, dataVars, stderr, written, failed>>

\* main.go 241-244
main_canvas ==
    /\ pc = "canvas"
    /\ Enter("canvas")
    /\ \E file \in IF flag.i = "" THEN {[kind |-> "none", rect |-> ZR]}
                    ELSE FileOutcomes :
         LET c == canvas(flag.i, img, file)
         IN  CASE c.result = "ok" ->
                    /\ cimg' = c.rect
                    /\ Continue("draw")
               [] c.result \in {"err", "fatal"} ->
                    /\ Fatal("canvas", "draw")
                    /\ UNCHANGED cimg
               [] c.result = "panic" ->
                    /\ Panic("canvas")
                    /\ UNCHANGED cimg
    /\ UNCHANGED <<flag, font, fg, bg, lines, linesB, est, estB, img, dstRect,
                   stdout, written>>

\* main.go 246: textRect, then draw.Draw onto the canvas
main_draw ==
    /\ pc = "draw"
    /\ Enter("draw")
    /\ LET r == textRect(cimg, img, flag.a)
       IN  IF r.usage
           THEN /\ usage("draw")
                /\ UNCHANGED dstRect
           ELSE /\ dstRect' = r.rect
                /\ Continue("write")
    /\ UNCHANGED <<flag, font, fg, bg, lines, linesB, est, estB, img, cimg,
                   stdout, written>>

\* main.go 248-251 and writeImage (main.go 105-112): png.Encode into a buffer
\* rejects an image without pixels; ioutil.WriteFile then creates or truncates
\* the file and writes the buffer
main_write ==
    /\ pc = "write"
    /\ Enter("write")
    /\ IF Empty(cimg)
       THEN /\ Fatal("encode", "exit")
            /\ UNCHANGED written
       ELSE \E w \in {"ok", "openErr", "writeErr"} :
              /\ written' = IF w = "openErr" THEN written ELSE written + 1
              /\ IF w = "ok"
                 THEN /\ pc' = "exit"
                      /\ exitCode' = ExitOK
                      /\ UNCHANGED <<stderr, failed>>
                 ELSE Fatal("writeFile", "exit")
    /\ UNCHANGED <<flag, font, fg, bg, dataVars, stdout>>

Next ==
    \/ main_checkFlags
    \/ main_font
    \/ main_readText
    \/ main_render
    \/ main_report
    \/ main_canvas
    \/ main_draw
    \/ main_write

Spec == Init /\ [][Next]_vars

---------------------------------------------------------------------------
(* Claims about the pure functions *)

\* the value of a two-digit hex byte, most significant digit first
ByteAt(q, i) == 16 * HexVal(q[i]) + HexVal(q[i + 1])

\* C4: for a well-formed 8-hex-digit string s, allocColorImage yields
\* R = bits 31-24 (digits 1-2), G = bits 23-16 (digits 3-4), B = bits 15-8
\* (digits 5-6), A = bits 7-0 (digits 7-8) of the value of s; formatting the
\* four channels back to 8 hex digits and parsing again yields the same channels.
C4_ColorChannelsRoundTrip ==
    /\ pc \in {"formatColor", "colorDone"} =>
          fg = [R |-> ByteAt(flag.c, 1), G |-> ByteAt(flag.c, 3),
                B |-> ByteAt(flag.c, 5), A |-> ByteAt(flag.c, 7)]
    /\ pc = "colorDone" => bg = fg

\* a color with four different channels, written with capital digits, has been
\* parsed, formatted (to a different string) and parsed again
C4_Witness ==
    /\ pc = "colorDone"
    /\ flag.b # flag.c
    /\ Cardinality({fg.R, fg.G, fg.B, fg.A}) = 4
    /\ fg.R >= 128

LongestLen(ls) ==
    IF ls = <<>> THEN 0
    ELSE CHOOSE m \in {Len(ls[i]) : i \in 1..Len(ls)} :
             \A i \in 1..Len(ls) : Len(ls[i]) <= m

PoPixels == Ceil(PointToFixed(Context, flag.p))
VsPixels == Ceil(PointToFixed(Context, flag.p + 2))

\* C3: bounds returns (0,0)-(maxLen*po + 4*po, numLines*vs + 4*po), and for
\* non-empty line sets A and B, if B's longest line is at least as long as A's
\* and B has at least as many lines, bounds(B) is at least as wide and as high.
C3_BoundsMonotone ==
    pc = "estimated" =>
        /\ est = [Min |-> Pt(0, 0),
                  Max |-> Pt(LongestLen(lines) * PoPixels + 4 * PoPixels,
                             Len(lines) * VsPixels + 4 * PoPixels)]
        /\ (LongestLen(linesB) >= LongestLen(lines) /\ Len(linesB) >= Len(lines)) =>
              (Dx(estB) >= Dx(est) /\ Dy(estB) >= Dy(est))

\* bounds has been applied to a set B with more lines and a longer longest line
\* than A, and to sets that differ in opposite directions
C3_Witness ==
    /\ pc = "estimated"
    /\ Len(linesB) > Len(lines)
    /\ LongestLen(linesB) > LongestLen(lines)
    /\ Dx(estB) > Dx(est) /\ Dy(estB) > Dy(est)

\* C2: the image render returns is no wider and no higher than the rectangle
\* bounds estimates for the same lines, font size and DPI.
C2_RenderWithinEstimate ==
    pc = "rendered" => (Dx(img) <= Dx(est) /\ Dy(img) <= Dy(est))

\* render returned an image cut down by the estimate: the crop rectangle was
\* larger than the allocated image
C2_Witness ==
    /\ pc = "rendered"
    /\ lines # <<>>
    /\ Dx(CropRect(Context, lines)) > Dx(est)
    /\ Dx(img) = Dx(est)

\* the largest pen advance over the lines, in 26.6
RECURSIVE MaxAdvance(_, _)
MaxAdvance(ctx, ls) ==
    IF ls = <<>> THEN 0
    ELSE LET m == MaxAdvance(ctx, Tail(ls))
             a == StringAdvance(ctx, Head(ls))
         IN  IF a > m THEN a ELSE m

\* C9: the estimate is never too small: for n >= 1 lines the image render
\* returns is at least 16 + n*vs + 16 high and 16 + (largest pen advance) + 16
\* wide, rounded up.  (Stated for n >= 1; for no line at all render crops to
\* 16x16, which the claim's 16 + 0 + 16 does not describe either.)
C9_EstimateNeverTooSmall ==
    (pc = "rendered" /\ lines # <<>>) =>
        /\ Dy(img) >= Ceil(Margin * 64 + Len(lines) * PointToFixed(Context, flag.p + 2)
                             + Margin * 64)
        /\ Dx(img) >= Ceil(Margin * 64 + MaxAdvance(Context, lines) + Margin * 64)

---------------------------------------------------------------------------
(* Claims about main *)

IsPrefix(p, q) == Len(p) <= Len(q) /\ SubSeq(q, 1, Len(p)) = p

Entered(stage) == \E k \in 1..Len(executed) : executed[k] = stage

NormalRun == <<"checkFlags", "font", "readText", "render", "canvas", "draw", "write">>
ReportRun == <<"checkFlags", "font", "readText", "render", "report">>

\* the stage of main in which a failure happened
StageOf(f) == IF f \in {"encode", "writeFile"} THEN "write" ELSE f

\* C5: with -n, when font loading, text reading and rendering succeed, the
\* process prints the bounds of the rendered text as <width>x<height> and
\* exits; the canvas, placement, compositing and writing steps are never
\* entered and no output file is written, whatever -o, -i and -a are.
C5_ReportOnlyPrints ==
    flag.n =>
        /\ ~Entered("canvas") /\ ~Entered("draw") /\ ~Entered("write")
        /\ written = 0 /\ cimg = ZR /\ dstRect = ZR
        /\ (Entered("render") /\ failed = "none") => pc \in {"report", "exit"}
        /\ (pc = "exit" /\ failed = "none") =>
              /\ executed = ReportRun
              /\ stdout = <<(<<Dx(render(lines)), "x", Dy(render(lines))>>)>>
              /\ exitCode = ExitOK
        /\ pc # "exit" => stdout = <<>>

\* a report run has ended well although -o and -i were given and -a is no anchor
C5_Witness ==
    /\ flag.n /\ pc = "exit" /\ failed = "none"
    /\ flag.o # "" /\ flag.i # "" /\ flag.a \notin Anchors
    /\ lines # <<>>
    /\ stdout # <<>>

C7_FailFast ==
    /\ IsPrefix(executed, NormalRun) \/ IsPrefix(executed, ReportRun)
    /\ written <= 1
    /\ written = 1 => (executed = NormalRun /\ failed \in {"none", "writeFile"})
    /\ failed # "none" =>
          /\ pc = "exit"
          /\ exitCode \notin {Running, ExitOK}
          /\ stderr # <<>>
          /\ executed # <<>> /\ executed[Len(executed)] = StageOf(failed)
    /\ failed \notin {"none", "writeFile"} => written = 0
    /\ pc = "exit" => exitCode # Running

\* a run has ended in the canvas stage, after four stages that succeeded
C7_Witness ==
    /\ pc = "exit" /\ failed = "canvas"
    /\ executed = SubSeq(NormalRun, 1, 5)
    /\ written = 0

\* C8: the exit status of a usage error (no output path outside report mode,
\* unknown anchor) differs from the exit status of every fatal termination,
\* and both differ from the status of success.
C8_UsageStatusIsDistinct ==
    pc = "exit" =>
        /\ failed = "none" => exitCode = ExitOK
        /\ failed \in {"checkFlags", "draw"} =>
              (exitCode = ExitUsage /\ exitCode # ExitOK)
        /\ failed \notin {"none", "checkFlags", "draw"} =>
              (exitCode # ExitUsage /\ exitCode # ExitOK)

\* C10: in a normal run without -i the canvas has the bounds of the rendered
\* text, so for each of the nine anchors both slacks are 0 and textRect gives
\* the whole canvas: the rectangle drawn into is the same for every anchor.
C10_BlankCanvasFitsText ==
    (~flag.n /\ flag.i = "" /\ pc \in {"draw", "write", "exit"} /\ Entered("canvas")) =>
        /\ cimg = img
        /\ \A a \in Anchors :
              /\ SlackX(cimg, img) = 0 /\ SlackY(cimg, img) = 0
              /\ textRect(cimg, img, a).rect = cimg
        /\ (Entered("draw") /\ flag.a \in Anchors) => dstRect = cimg

\* text was drawn at the bottom right of a blank canvas with pixels
C10_Witness ==
    /\ ~flag.n /\ flag.i = "" /\ flag.a = "br"
    /\ pc = "exit" /\ failed = "none" /\ written = 1
    /\ lines # <<>> /\ ~Empty(img)
    /\ dstRect = cimg

===========================================================================
